---- MODULE Spec2Model ----
(***************************************************************************)
(* Model of votaciones.py: the csv ingestion (DictReader + parseCsvEntry), *)
(* the CalculaGanador constructor and CalculaGanador.run / getTop2.        *)
(*                                                                         *)
(* A csv file is a sequence of lines, a line is a sequence of cell texts   *)
(* (the empty sequence is a blank line).  Python values are tagged records *)
(* so that a text, an int, a bool and None stay distinguishable.           *)
(***************************************************************************)
EXTENDS Integers, Sequences, FiniteSets, TLC

(* ------------------------------ bounds -------------------------------- *)
\* data rows of a file drawn from the full row alphabet (malformed rows too)
MaxRows == 2
\* data rows of a file drawn from the well-formed ballot alphabet
MaxBallots == 5
\* consecutive run() calls on one object
MaxRuns == 2

(* --------------------------- python values ---------------------------- *)
Str(s) == [t |-> "str", s |-> s, n |-> 0, b |-> FALSE]
IntV(n) == [t |-> "int", s |-> "", n |-> n, b |-> FALSE]
BoolV(b) == [t |-> "bool", s |-> "", n |-> 0, b |-> b]
NoneV == [t |-> "None", s |-> "", n |-> 0, b |-> FALSE]

\* the texts int() accepts, among the texts the model uses, and their value
IntText == ("7" :> 7)

\* truth value of a python value (bool(x), `if x:`)
Truthy(v) ==
    CASE v.t = "str" -> v.s # ""
      [] v.t = "int" -> v.n # 0
      [] v.t = "bool" -> v.b
      [] OTHER -> FALSE

(* ----------------------------- constants ------------------------------ *)
CSV_PATH == "votos.csv"
\* a path different from CSV_PATH that a caller may hand to the constructor
OTHER_PATH == "otro.csv"
\* csv_path is None
NoPath == "None"

\* CsvEntry.__annotations__, in declaration order, with the declared types
Keys == <<"region", "provincia", "distrito", "dni", "candidato", "esvalido">>
KType == [k \in {Keys[i] : i \in 1..Len(Keys)} |->
            CASE k = "dni" -> "int"
              [] k = "esvalido" -> "bool"
              [] OTHER -> "str"]
KeySet == {Keys[i] : i \in 1..Len(Keys)}

FixtureEntry(dni, candidato, esvalido) ==
    [k \in KeySet |->
        CASE k = "region" -> Str("Ancash")
          [] k = "provincia" -> Str("Asuncion")
          [] k = "distrito" -> Str("Acochaca")
          [] k = "dni" -> IntV(dni)
          [] k = "candidato" -> Str(candidato)
          [] OTHER -> BoolV(esvalido)]

DATATEST ==
    << FixtureEntry(40810062, "Eddie Hinesley", FALSE),
       FixtureEntry(57533597, "Eddie Hinesley", TRUE),
       FixtureEntry(86777322, "Aundrea Grace", TRUE),
       FixtureEntry(23017965, "Aundrea Grace", TRUE) >>

(* ------------------------------ toLiteral ----------------------------- *)
\* toLiteral(s): the key itself, or ValueError for an unrecognized name
toLiteral(s) ==
    IF s \in KeySet THEN [err |-> "none", key |-> s]
                    ELSE [err |-> "ValueError", key |-> s]

(* ---------------------------- parseCsvEntry --------------------------- *)
IsInstance(v, ktype) ==
    CASE ktype = "str" -> v.t = "str"
      [] ktype = "int" -> v.t \in {"int", "bool"}
      [] OTHER -> v.t = "bool"

\* a variant of Cast whose failed int() is not the ValueError the handler catches
CastUncaught(ktype, v) ==
    CASE ktype = "str" ->
            [err |-> "none", val |-> IF v.t = "None" THEN Str("None") ELSE v]
      [] ktype = "int" ->
            IF v.t = "str" /\ v.s \in DOMAIN IntText
            THEN [err |-> "none", val |-> IntV(IntText[v.s])]
            ELSE [err |-> "TypeError", val |-> v]
      [] OTHER -> [err |-> "none", val |-> BoolV(Truthy(v))]

\* k_type(input_dict[key]) for a value that is not an instance of k_type
Cast(ktype, v) ==
    CASE ktype = "str" ->
            [err |-> "none", val |-> IF v.t = "None" THEN Str("None") ELSE v]
      [] ktype = "int" ->
            IF v.t = "None" THEN [err |-> "TypeError", val |-> v]
            ELSE IF v.t = "str" /\ v.s \in DOMAIN IntText
            THEN [err |-> "none", val |-> IntV(IntText[v.s])]
            ELSE [err |-> "ValueError", val |-> v]
      [] OTHER -> [err |-> "none", val |-> BoolV(Truthy(v))]

\* the loop of parseCsvEntry from the i-th annotation on; acc carries the
\* result built so far, the error-log entries and the exception raised
RECURSIVE ParseFrom(_, _, _, _)
ParseFrom(i, input_dict, line, acc) ==
    IF i > Len(Keys) \/ acc.err # "none" THEN acc
    ELSE
      LET key == Keys[i]
          ktype == KType[key]
      IN IF key \notin DOMAIN input_dict
         THEN \* log.error, then input_dict[key] raises KeyError
              [acc EXCEPT !.log = Append(@, [msg |-> "not found", key |-> key, line |-> line]),
                          !.err = "KeyError"]
         ELSE
           LET v == input_dict[key]
               c == IF IsInstance(v, ktype) THEN [err |-> "none", val |-> v]
                                            ELSE Cast(ktype, v)
               lit == toLiteral(key)
           IN IF c.err \notin {"none", "ValueError"}
              THEN [acc EXCEPT !.err = c.err]
              ELSE IF lit.err # "none"
              THEN [acc EXCEPT !.err = lit.err]
              ELSE ParseFrom(i + 1, input_dict, line,
                     [acc EXCEPT
                        !.log = IF c.err = "ValueError"
                                THEN Append(@, [msg |-> "cast", key |-> key, line |-> line])
                                ELSE @,
                        !.result = (lit.key :> c.val) @@ @])

parseCsvEntry(input_dict, line) ==
    ParseFrom(1, input_dict, line, [result |-> << >>, log |-> << >>, err |-> "none"])

(* ------------------------------ DictReader ---------------------------- *)
Min2(a, b) == IF a < b THEN a ELSE b
MaxOf(S) == CHOOSE x \in S : \A y \in S : y <= x

\* the dict DictReader yields for one row: dict(zip(fieldnames, row)), the
\* fields the row is too short for set to None (restval); the cells beyond
\* the header are kept under the None key (restkey), which is no text key
DictRow(fieldnames, row) ==
    LET lf == Len(fieldnames)
        lr == Len(row)
        m == Min2(lf, lr)
    IN [k \in {fieldnames[i] : i \in 1..lf} |->
          IF \E i \in (lr + 1)..lf : fieldnames[i] = k
          THEN NoneV
          ELSE Str(row[MaxOf({i \in 1..m : fieldnames[i] = k})])]

\* the rows DictReader iterates: blank lines after the header are skipped
RECURSIVE DataRows(_)
DataRows(lines) ==
    IF lines = << >> THEN << >>
    ELSE IF Head(lines) = << >> THEN DataRows(Tail(lines))
    ELSE <<Head(lines)>> \o DataRows(Tail(lines))

(* ------------------------------- state -------------------------------- *)
VARIABLES
    files,            \* the file system: path -> lines of the file
    pc,               \* "start", "ready" (constructed) or "failed" (constructor raised)
    csv_path,         \* self.csv_path
    vote_list,        \* self.vote_list
    valid_votes,      \* self.valid_votes
    log,              \* the entries written with log.error
    err,              \* the exception that left the constructor, or "none"
    votosxcandidato,  \* the tally of the last run(), in insertion order
    top2,             \* the pair getTop2 returned to the last run()
    result,           \* the pair the last run() returned
    runs,             \* number of run() calls so far
    stdout            \* the lines run() printed

vars == <<files, pc, csv_path, vote_list, valid_votes, log, err,
          votosxcandidato, top2, result, runs, stdout>>

(* ------------------------------ leerdatos ----------------------------- *)
\* `if entry['esvalido']` of the ingestion counts every record
IngestCountsAll(entry) == TRUE

\* `if vote['esvalido']` / `if entry['esvalido']` where valid_votes is counted
IngestCounts(entry) == Truthy(entry["esvalido"])

\* the loop of leerdatos over the rows of the DictReader, from row i on
\* (line_count = i - 1); st carries vote_list, valid_votes, log and the
\* exception that ended the loop
RECURSIVE LeerFrom(_, _, _, _)
LeerFrom(fieldnames, rows, i, st) ==
    IF i > Len(rows) \/ st.err # "none" THEN st
    ELSE
      LET p == parseCsvEntry(DictRow(fieldnames, rows[i]), i - 1)
      IN IF p.err # "none"
         THEN [st EXCEPT !.log = @ \o p.log, !.err = p.err]
         ELSE LeerFrom(fieldnames, rows, i + 1,
                [st EXCEPT !.log = @ \o p.log,
                           !.vote_list = Append(@, p.result),
                           !.valid_votes = IF IngestCounts(p.result) THEN @ + 1 ELSE @])

\* the path leerdatos opens: the module constant, whatever self.csv_path is
OpenedPath(path) == CSV_PATH

\* leerdatos() on an object whose vote_list is empty and valid_votes is 0
leerdatos(fs, path) ==
    LET lines == fs[OpenedPath(path)]
        st0 == [vote_list |-> << >>, valid_votes |-> 0, log |-> << >>, err |-> "none"]
    IN IF lines = << >>
       THEN \* next(csvfile) on a file without a line
            [st0 EXCEPT !.err = "StopIteration"]
       ELSE IF Len(lines) = 1
       THEN \* no header line: the DictReader yields nothing
            st0
       ELSE LeerFrom(lines[2], DataRows(SubSeq(lines, 3, Len(lines))), 1, st0)

\* valid_votes as the fixture branch of __init__ counts it
RECURSIVE CountFixture(_)
CountFixture(votes) ==
    IF votes = << >> THEN 0
    ELSE (IF IngestCounts(Head(votes)) THEN 1 ELSE 0) + CountFixture(Tail(votes))

(* -------------------------------- run --------------------------------- *)
\* `if vote['esvalido']` of the tally loop
TallyCounts(vote) == Truthy(vote["esvalido"])

\* votosxcandidato[name] += 1 on an insertion-ordered defaultdict(int)
Increment(tally, name) ==
    IF \E j \in 1..Len(tally) : tally[j].name = name
    THEN [j \in 1..Len(tally) |->
            IF tally[j].name = name
            THEN [tally[j] EXCEPT !.votes = @ + 1]
            ELSE tally[j]]
    ELSE Append(tally, [name |-> name, votes |-> 1])

RECURSIVE CountVotes(_, _)
CountVotes(votes, tally) ==
    IF votes = << >> THEN tally
    ELSE CountVotes(Tail(votes),
           IF TallyCounts(Head(votes))
           THEN Increment(tally, Head(votes)["candidato"].s)
           ELSE tally)

\* a tally that survives from the previous call
StaleTally == votosxcandidato

\* votosxcandidato = defaultdict(int): every call starts from an empty tally
FreshTally == << >>

Candidato(name, votes) == [name |-> name, votes |-> votes]

\* one iteration of getTop2 that also displaces on an equal count
Top2StepNonStrict(pair, name, vote_count) ==
    IF vote_count >= pair.top.votes
    THEN [top |-> Candidato(name, vote_count), second |-> pair.top]
    ELSE IF vote_count > pair.second.votes
    THEN [pair EXCEPT !.second = Candidato(name, vote_count)]
    ELSE pair

\* one iteration of getTop2 without the elif branch: the second slot is
\* filled by a demoted leader only
Top2StepNoSecond(pair, name, vote_count) ==
    IF vote_count > pair.top.votes
    THEN [top |-> Candidato(name, vote_count), second |-> pair.top]
    ELSE pair

\* one iteration of the loop of getTop2
Top2Step(pair, name, vote_count) ==
    IF vote_count > pair.top.votes
    THEN [top |-> Candidato(name, vote_count), second |-> pair.top]
    ELSE IF vote_count > pair.second.votes
    THEN [pair EXCEPT !.second = Candidato(name, vote_count)]
    ELSE pair

RECURSIVE Top2From(_, _, _)
Top2From(tally, i, pair) ==
    IF i > Len(tally) THEN pair
    ELSE Top2From(tally, i + 1, Top2Step(pair, tally[i].name, tally[i].votes))

getTop2(tally) ==
    Top2From(tally, 1, [top |-> Candidato("", 0), second |-> Candidato("", 0)])

\* a majority test that forgets to halve the total
MajorityOfAll(votes, total) == votes > total

\* first.votes > self.valid_votes / 2, an exact comparison of the two integers
Majority(votes, total) == 2 * votes > total

\* the pair run() returns; absent = TRUE stands for a second element None
Decision(pair, total) ==
    IF Majority(pair.top.votes, total)
    THEN [first |-> pair.top.name, second |-> "", absent |-> TRUE]
    ELSE [first |-> pair.top.name, second |-> pair.second.name, absent |-> FALSE]

(* ---------------------------- input files ----------------------------- *)
SeqsUpTo(S, n) == UNION {[1..k -> S] : k \in 0..n}

Banner == <<"VOTOS">>

\* header lines: the six fields, the validity column missing, an extra column
Headers ==
    { Keys,
      <<"region", "provincia", "distrito", "dni", "candidato">>,
      <<"region", "provincia", "distrito", "dni", "candidato", "esvalido", "mesa">> }

\* rows of every shape: numeric and non-numeric dni, the three validity
\* texts, a second candidate, rows that are too short or too long, a blank
\* line
WideRows ==
    { <<"r", "p", "d", x[1], "A", x[2]>> : x \in {"7", "x"} \X {"True", "False", ""} }
    \cup { <<"r", "p", "d", "7", "B", "True">>,
           <<"r", "p", "d", "7", "A">>,
           <<"r", "p", "d">>,
           <<"r", "p", "d", "7", "A", "True", "m1">>,
           << >> }

\* well-formed ballots: a valid ballot ("True") for each of three candidates
\* and an invalid one (empty validity text)
BallotRows ==
    { <<"r", "p", "d", "7", c, "True">> : c \in {"A", "B", "C"} }
    \cup { <<"r", "p", "d", "7", "A", "">> }

CsvFiles ==
    { << >>, <<Banner>> }
    \cup { <<Banner, h>> \o rows : h \in Headers, rows \in SeqsUpTo(WideRows, MaxRows) }
    \cup { <<Banner, Keys>> \o rows : rows \in SeqsUpTo(BallotRows, MaxBallots) }

\* the file at OTHER_PATH: one valid ballot
OtherFiles ==
    { <<Banner, Keys, <<"r", "p", "d", "7", "C", "True">> >> }

Paths == {NoPath, CSV_PATH, OTHER_PATH}

(* ------------------------------ behaviour ----------------------------- *)
NoPair == [top |-> Candidato("", 0), second |-> Candidato("", 0)]
NoResult == [first |-> "", second |-> "", absent |-> FALSE]

Init ==
    /\ files \in { (CSV_PATH :> f) @@ (OTHER_PATH :> g) : f \in CsvFiles, g \in OtherFiles }
    /\ pc = "start"
    /\ csv_path = NoPath
    /\ vote_list = << >>
    /\ valid_votes = 0
    /\ log = << >>
    /\ err = "none"
    /\ votosxcandidato = << >>
    /\ top2 = NoPair
    /\ result = NoResult
    /\ runs = 0
    /\ stdout = << >>

\* CalculaGanador(path): the fixture when the path is None, else leerdatos()
Construct(path) ==
    /\ pc = "start"
    /\ csv_path' = path
    /\ IF path = NoPath
       THEN /\ vote_list' = DATATEST
            /\ valid_votes' = CountFixture(DATATEST)
            /\ log' = log
            /\ err' = "none"
            /\ pc' = "ready"
       ELSE \E st \in {leerdatos(files, path)} :
               /\ vote_list' = st.vote_list
               /\ valid_votes' = st.valid_votes
               /\ log' = log \o st.log
               /\ err' = st.err
               /\ pc' = IF st.err = "none" THEN "ready" ELSE "failed"
    /\ UNCHANGED <<files, votosxcandidato, top2, result, runs, stdout>>

\* c.run()
Run ==
    /\ pc = "ready"
    /\ runs < MaxRuns
    /\ \E tally \in {CountVotes(vote_list, FreshTally)} :
         \E pair \in {getTop2(tally)} :
            /\ votosxcandidato' = tally
            /\ stdout' = stdout \o tally
            /\ top2' = pair
            /\ result' = Decision(pair, valid_votes)
    /\ runs' = runs + 1
    /\ UNCHANGED <<files, pc, csv_path, vote_list, valid_votes, log, err>>

Next ==
    \/ \E path \in Paths : Construct(path)
    \/ Run

Spec == Init /\ [][Next]_vars

(* ------------------------- what the claims speak of ------------------- *)
\* the records whose validity flag is the boolean true
ValidIdx == {i \in 1..Len(vote_list) : vote_list[i]["esvalido"] = BoolV(TRUE)}
TotalValid == Cardinality(ValidIdx)
Names == {vote_list[i]["candidato"].s : i \in ValidIdx}
Votes(name) == Cardinality({i \in ValidIdx : vote_list[i]["candidato"].s = name})
FirstValid(name) ==
    LET S == {i \in ValidIdx : vote_list[i]["candidato"].s = name}
    IN CHOOSE i \in S : \A j \in S : i <= j
HasMajority(name) == 2 * Votes(name) > TotalValid

RECURSIVE SumVotes(_)
SumVotes(tally) ==
    IF tally = << >> THEN 0 ELSE Head(tally).votes + SumVotes(Tail(tally))

\* position in the pair getTop2 returned: 1, 2, or 3 for "not in the pair"
Rank(name) ==
    IF top2.top.name = name THEN 1
    ELSE IF top2.second.name = name THEN 2
    ELSE 3

\* the file leerdatos read, its header and the lines after the header
ReadFile == files[CSV_PATH]
FromFile == pc # "start" /\ csv_path # NoPath
Header(f) == f[2]
Lines(f) == SubSeq(f, 3, Len(f))
NumLines(f) == Len(f) - 2
Line(f, i) == f[i + 2]
Column(f, k) == CHOOSE i \in 1..Len(Header(f)) : Header(f)[i] = k
Carries(f, row, k) ==
    \E i \in 1..Len(Header(f)) : Header(f)[i] = k /\ i <= Len(row)
\* every line after the header carries the six fields
AllFieldsPresent(f) ==
    /\ Len(f) >= 2
    /\ \A i \in 1..NumLines(f) : \A k \in KeySet : Carries(f, Line(f, i), k)
Cell(f, i, k) == Line(f, i)[Column(f, k)]

(* -------------------------------- C1 ---------------------------------- *)
\* C1: after run(), a candidate whose valid ballots are strictly more than
\* half of all valid ballots is the first element and the second is absent.
C1_MajorityRule ==
    runs >= 1 =>
        \A n \in Names :
            HasMajority(n) => result = [first |-> n, second |-> "", absent |-> TRUE]

\* a file run in which the majority winner is not the first candidate tallied
C1_Witness ==
    /\ runs >= 1 /\ csv_path # NoPath
    /\ \E n \in Names, m \in Names :
         HasMajority(n) /\ FirstValid(m) < FirstValid(n) /\ result.first = n

(* -------------------------------- C2 ---------------------------------- *)
\* C2: after run(), when no candidate has a majority, the second element is
\* present, the pair holds the two highest tallies in order (no other
\* candidate has more votes than the second), and a slot no candidate fills
\* is the empty name; zero valid ballots gives ("", "").
C2_RunoffRule ==
    (runs >= 1 /\ \A n \in Names : ~HasMajority(n)) =>
        LET f == result.first
            s == result.second
        IN /\ ~result.absent
           /\ (Names = {}) <=> (f = "")
           /\ (Cardinality(Names) < 2) <=> (s = "")
           /\ f # "" => f \in Names /\ \A n \in Names : Votes(n) <= Votes(f)
           /\ s # "" => /\ s \in Names /\ s # f
                        /\ Votes(f) >= Votes(s)
                        /\ \A n \in Names \ {f} : Votes(n) <= Votes(s)

\* a runoff between a leader and the earlier leader it displaced, with a
\* third candidate tallied after both
C2_Witness ==
    /\ runs >= 1 /\ ~result.absent
    /\ \E a \in Names, b \in Names, c \in Names :
         /\ result.first = b /\ result.second = a
         /\ FirstValid(a) < FirstValid(b) /\ FirstValid(b) < FirstValid(c)
         /\ Votes(a) < Votes(b)

\* zero valid ballots in a file that has ballots
C2_WitnessNone ==
    runs >= 1 /\ Len(vote_list) > 0 /\ TotalValid = 0 /\ result = NoResult

C3_WitnessFirst ==
    /\ runs >= 1
    /\ \E a \in Names, b \in Names, c \in Names :
         /\ Votes(a) = Votes(b) /\ Votes(c) < Votes(a)
         /\ FirstValid(a) < FirstValid(c) /\ FirstValid(c) < FirstValid(b)
         /\ Rank(a) = 1 /\ Rank(b) = 2

(* -------------------------------- C4 ---------------------------------- *)
\* C4: on a constructed object valid_votes is the number of records whose
\* flag is true; after run() every tally entry is the number of valid
\* records of that candidate and the entries sum to valid_votes, so that a
\* record whose flag is false counts nowhere.
C4_ValidAccounting ==
    /\ pc = "ready" => valid_votes = TotalValid
    /\ runs >= 1 =>
         /\ SumVotes(votosxcandidato) = valid_votes
         /\ {votosxcandidato[j].name : j \in 1..Len(votosxcandidato)} = Names
         /\ \A j \in 1..Len(votosxcandidato) :
              votosxcandidato[j].votes = Votes(votosxcandidato[j].name)

\* a file with valid and invalid ballots, ingested and tallied
C4_Witness ==
    /\ runs >= 1 /\ csv_path # NoPath
    /\ TotalValid >= 2 /\ TotalValid < Len(vote_list)

\* the fixture, ingested and tallied
C4_WitnessFixture ==
    runs >= 1 /\ csv_path = NoPath /\ valid_votes = 3 /\ Len(vote_list) = 4

(* -------------------------------- C5 ---------------------------------- *)
\* C5: an object constructed with a path holds the ballots of the file at
\* that path, one record per ballot line with that line's candidate; only
\* an object constructed without a path holds the fixture.
C5_PathAuthoritative ==
    pc = "ready" =>
        IF csv_path = NoPath THEN vote_list = DATATEST
        ELSE LET rows == DataRows(Lines(files[csv_path]))
             IN /\ Len(vote_list) = Len(rows)
                /\ \A i \in 1..Len(rows) :
                     Len(rows[i]) >= 5 /\ vote_list[i]["candidato"] = Str(rows[i][5])

(* -------------------------------- C6 ---------------------------------- *)
\* C6: a run() call leaves vote_list and valid_votes as they were, and a
\* call that follows another returns the pair the previous one returned.
C6_Idempotent ==
    [][runs' = runs + 1 =>
         /\ vote_list' = vote_list
         /\ valid_votes' = valid_votes
         /\ runs >= 1 => result' = result]_vars

\* two calls on a file with at least two valid ballots
C6_Witness ==
    runs >= 2 /\ csv_path # NoPath /\ TotalValid >= 2 /\ Cardinality(Names) >= 2

(* -------------------------------- C7 ---------------------------------- *)
\* C7: when a ballot line of the file read lacks one of the six fields, the
\* constructor raises nothing, an error is logged and every ballot line has
\* its record.
C7_MissingFieldRecoverable ==
    (/\ FromFile
     /\ Len(ReadFile) >= 2
     /\ \E i \in 1..Len(DataRows(Lines(ReadFile))) :
          \E k \in KeySet : ~Carries(ReadFile, DataRows(Lines(ReadFile))[i], k))
    => /\ err = "none"
       /\ log # << >>
       /\ Len(vote_list) = Len(DataRows(Lines(ReadFile)))

(* -------------------------------- C8 ---------------------------------- *)
\* C8: when the header of the file read names a column that is not one of
\* the six fields and the file has a ballot line, the constructor raises.
C8_UnknownColumnFatal ==
    (/\ FromFile
     /\ Len(ReadFile) >= 2
     /\ DataRows(Lines(ReadFile)) # << >>
     /\ \E i \in 1..Len(Header(ReadFile)) : Header(ReadFile)[i] \notin KeySet)
    => err # "none"

(* -------------------------------- C9 ---------------------------------- *)
\* C9: when every line after the header carries the six fields, the
\* constructor raises nothing and vote_list has one record per line, in
\* file order, with the line's texts; a dni text that is no integer is kept
\* as the text it was and an error naming the row is logged.
C9_CoercionKeepsRows ==
    (FromFile /\ AllFieldsPresent(ReadFile)) =>
        /\ err = "none" /\ pc = "ready"
        /\ Len(vote_list) = NumLines(ReadFile)
        /\ \A i \in 1..NumLines(ReadFile) :
             /\ \A k \in {"region", "provincia", "distrito", "candidato"} :
                  vote_list[i][k] = Str(Cell(ReadFile, i, k))
             /\ LET d == Cell(ReadFile, i, "dni")
                IN IF d \in DOMAIN IntText
                   THEN vote_list[i]["dni"] = IntV(IntText[d])
                   ELSE /\ vote_list[i]["dni"] = Str(d)
                        /\ \E j \in 1..Len(log) :
                             log[j] = [msg |-> "cast", key |-> "dni", line |-> i - 1]

\* a row with a non-numeric dni followed by another row, both ingested
C9_Witness ==
    /\ pc = "ready" /\ FromFile /\ AllFieldsPresent(ReadFile)
    /\ Len(vote_list) = 2
    /\ vote_list[1]["dni"] = Str("x")
    /\ vote_list[2]["dni"] = IntV(7)
    /\ log # << >>

(* -------------------------------- C10 --------------------------------- *)
\* C10: in a file with the six-field header whose lines carry all fields, a
\* line whose validity text is "False" gives a record whose flag is false,
\* and valid_votes counts exactly the lines whose validity text is "True".
C10_ValidityCoerced ==
    (pc = "ready" /\ FromFile /\ AllFieldsPresent(ReadFile)) =>
        /\ \A i \in 1..NumLines(ReadFile) :
             Cell(ReadFile, i, "esvalido") = "False"
                => vote_list[i]["esvalido"] = BoolV(FALSE)
        /\ valid_votes =
             Cardinality({i \in 1..NumLines(ReadFile) :
                            Cell(ReadFile, i, "esvalido") = "True"})

====
